---------------------------- MODULE Spec2Model ----------------------------
(***************************************************************************)
(* Smart Snippets (src/main.ts): the snippet-expansion key handler, the    *)
(* template expander and the settings tab, as state machines.              *)
(*                                                                         *)
(* A JavaScript string is a sequence of one-character strings, so that     *)
(* endsWith, slice, concatenation and the global regex replaces are        *)
(* computed character by character.  Offsets are 0-based as in the code.   *)
(***************************************************************************)
EXTENDS Integers, Sequences, FiniteSets, TLC

VARIABLES
    snippets,      \* plugin.settings.snippets
    triggerKey,    \* plugin.settings.triggerKey
    store,         \* the plugin's persisted data (data.json), read by loadData
    doc,           \* view.state.doc, as one string with "\n" between lines
    head,          \* view.state.selection.main.head
    env,           \* the host's time zone and default locale
    ev,            \* the key event being handled and what the handler did to it
    typed,         \* key presses so far
    template,      \* the argument of expandSnippet (expander specification)
    expanded,      \* its call: made or not, the instant it read, its result
    rows,          \* the rows the settings tab rendered (closures of display)
    newSnippet,    \* newTrigger, newDescription, newTemplate of display
    pending,       \* handlers suspended at `await this.plugin.saveSettings()`
    nextRef,       \* next fresh object reference
    lastOp,        \* the last row handler run: the row's snippet, the one hit
    ops            \* settings handlers started so far

vars == <<snippets, triggerKey, store, doc, head, env, ev, typed, template,
          expanded, rows, newSnippet, pending, nextRef, lastOp, ops>>

---------------------------------------------------------------------------
(* Bounds of the model. *)

\* a template of the expander specification is at most this many pieces
MaxPieces == 3
\* a configured snippet list of the editor specifications has at most this many entries
MaxSnippets == 2
\* key presses in one behaviour of the editor specifications
MaxKeys == 2
\* settings handlers started in one behaviour of the settings specification
MaxOps == 2

---------------------------------------------------------------------------
(* Strings *)

\* String.prototype.slice(from, to) for 0 <= from <= to <= length
Slice(s, from, to) == SubSeq(s, from + 1, to)

\* String.prototype.endsWith
EndsWith(s, suffix) ==
    /\ Len(suffix) <= Len(s)
    /\ SubSeq(s, Len(s) - Len(suffix) + 1, Len(s)) = suffix

\* s contains pat at 1-based position i
OccursAt(s, pat, i) ==
    /\ i >= 1
    /\ i + Len(pat) - 1 <= Len(s)
    /\ SubSeq(s, i, i + Len(pat) - 1) = pat

Contains(s, pat) == \E i \in 1..(Len(s) + 1) : OccursAt(s, pat, i)

\* the first position from i on at which s contains pat, 0 when there is none
NextMatch(s, pat, i) ==
    LET hits == {j \in i..(Len(s) - Len(pat) + 1) : OccursAt(s, pat, j)}
    IN  IF hits = {} THEN 0 ELSE CHOOSE j \in hits : \A k \in hits : j <= k

RECURSIVE ReplaceFrom(_, _, _, _)
\* s from position i on, every match of pat replaced by val
ReplaceFrom(s, i, pat, val) ==
    LET j == NextMatch(s, pat, i)
    IN  IF j = 0 THEN SubSeq(s, i, Len(s))
        ELSE SubSeq(s, i, j - 1) \o val \o ReplaceFrom(s, j + Len(pat), pat, val)

\* a mutant: the pattern without the g flag, which replaces the first match
ReplaceFirst(s, pat, val) ==
    LET j == NextMatch(s, pat, 1)
    IN  IF j = 0 THEN s
        ELSE SubSeq(s, 1, j - 1) \o val \o SubSeq(s, j + Len(pat), Len(s))

\* s.replace(/pat/g, val) for a pattern of literal characters: the matches are
\* found left to right, without overlap, and the inserted text is not rescanned
ReplaceAll(s, pat, val) == ReplaceFrom(s, 1, pat, val)

---------------------------------------------------------------------------
(* Date: an instant is [day, ms]: whole days since 1970-01-01 UTC and the  *)
(* milliseconds of that day.                                               *)

DigitChars == <<"0", "1", "2", "3", "4", "5", "6", "7", "8", "9">>

RECURSIVE ToDigits(_)
\* Number.prototype.toString() of a natural number
ToDigits(n) ==
    IF n < 10 THEN <<DigitChars[n + 1]>>
    ELSE ToDigits(n \div 10) \o <<DigitChars[(n % 10) + 1]>>

RECURSIVE PadStart(_, _, _)
\* String.prototype.padStart(width, fill)
PadStart(s, width, fill) ==
    IF Len(s) >= width THEN s ELSE PadStart(<<fill>> \o s, width, fill)

\* the calendar date [y, m, d] of a day number (proleptic Gregorian)
CivilFromDays(days) ==
    LET z   == days + 719468
        era == z \div 146097
        doe == z - era * 146097
        yoe == (doe - doe \div 1460 + doe \div 36524 - doe \div 146096) \div 365
        doy == doe - (365 * yoe + yoe \div 4 - yoe \div 100)
        mp  == (5 * doy + 2) \div 153
        d   == doy - (153 * mp + 2) \div 5 + 1
        m   == IF mp < 10 THEN mp + 3 ELSE mp - 9
        y   == yoe + era * 400 + (IF m <= 2 THEN 1 ELSE 0)
    IN  [y |-> y, m |-> m, d |-> d]

\* the local wall-clock fields of an instant in a zone tz minutes east of UTC
LocalFields(now, tz) ==
    LET t    == now.ms + tz * 60000
        day  == now.day + (IF t < 0 THEN -1 ELSE IF t >= 86400000 THEN 1 ELSE 0)
        ms   == (t + 86400000) % 86400000
        date == CivilFromDays(day)
    IN  [y |-> date.y, m |-> date.m, d |-> date.d,
         h |-> ms \div 3600000, min |-> (ms \div 60000) % 60,
         s |-> (ms \div 1000) % 60]

\* now.toISOString().split('T')[0]
IsoDate(now) ==
    LET date == CivilFromDays(now.day)
    IN  PadStart(ToDigits(date.y), 4, "0") \o <<"-">>
        \o PadStart(ToDigits(date.m), 2, "0") \o <<"-">>
        \o PadStart(ToDigits(date.d), 2, "0")

Hour12(h) == IF h % 12 = 0 THEN 12 ELSE h % 12

AmPm(h) == IF h < 12 THEN <<"A", "M">> ELSE <<"P", "M">>

\* now.toLocaleTimeString('en-US', { hour: '2-digit', minute: '2-digit' })
LocaleTime(now, tz) ==
    LET f == LocalFields(now, tz)
    IN  PadStart(ToDigits(Hour12(f.h)), 2, "0") \o <<":">>
        \o PadStart(ToDigits(f.min), 2, "0") \o <<" ">> \o AmPm(f.h)

\* now.toLocaleString() in the host's default locale
LocaleDateTime(now, tz, locale) ==
    LET f == LocalFields(now, tz)
    IN  IF locale = "en-US"
        THEN ToDigits(f.m) \o <<"/">> \o ToDigits(f.d) \o <<"/">> \o ToDigits(f.y)
             \o <<",", " ">> \o ToDigits(Hour12(f.h)) \o <<":">>
             \o PadStart(ToDigits(f.min), 2, "0") \o <<":">>
             \o PadStart(ToDigits(f.s), 2, "0") \o <<" ">> \o AmPm(f.h)
        ELSE PadStart(ToDigits(f.d), 2, "0") \o <<"/">>
             \o PadStart(ToDigits(f.m), 2, "0") \o <<"/">> \o ToDigits(f.y)
             \o <<",", " ">> \o PadStart(ToDigits(f.h), 2, "0") \o <<":">>
             \o PadStart(ToDigits(f.min), 2, "0") \o <<":">>
             \o PadStart(ToDigits(f.s), 2, "0")

\* now.getTime().toString(): the seconds, then the three millisecond digits
TimeStamp(now) ==
    ToDigits(now.day * 86400 + now.ms \div 1000)
    \o PadStart(ToDigits(now.ms % 1000), 3, "0")

---------------------------------------------------------------------------
(* expandSnippet *)

\* a mutant: the pattern without its braces
Unbraced(name) == name

\* the pattern /{{name}}/: two braces, the name, two braces, all literal
Braced(name) == <<"{", "{">> \o name \o <<"}", "}">>

PlaceholderNames ==
    << <<"d", "a", "t", "e">>,
       <<"t", "i", "m", "e">>,
       <<"d", "a", "t", "e", "t", "i", "m", "e">>,
       <<"t", "i", "m", "e", "s", "t", "a", "m", "p">>,
       <<"y", "e", "a", "r">>,
       <<"m", "o", "n", "t", "h">>,
       <<"d", "a", "y">> >>

\* the pattern of the k-th replace of expandSnippet
Placeholder(k) == Braced(PlaceholderNames[k])

\* the value of the k-th replace of expandSnippet
PlaceholderValue(k, now, e) ==
    LET f == LocalFields(now, e.tz)
    IN  CASE k = 1 -> IsoDate(now)
          [] k = 2 -> LocaleTime(now, e.tz)
          [] k = 3 -> LocaleDateTime(now, e.tz, e.locale)
          [] k = 4 -> TimeStamp(now)
          [] k = 5 -> ToDigits(f.y)
          [] k = 6 -> PadStart(ToDigits(f.m), 2, "0")
          [] k = 7 -> PadStart(ToDigits(f.d), 2, "0")

\* one `.replace(/{{name}}/g, value)` of the chain
ReplacePlaceholder(s, k, now, e) ==
    ReplaceAll(s, Placeholder(k), PlaceholderValue(k, now, e))

RECURSIVE ReplaceChain(_, _, _, _)
\* the replaces 1..k of the chain, applied in order
ReplaceChain(s, k, now, e) ==
    IF k = 0 THEN s
    ELSE ReplacePlaceholder(ReplaceChain(s, k - 1, now, e), k, now, e)

expandSnippet(tmpl, now, e) == ReplaceChain(tmpl, Len(PlaceholderNames), now, e)

---------------------------------------------------------------------------
(* Settings.  A snippet is [ref, missing, trigger, description, template]: *)
(* ref is the identity of the JavaScript object, missing the properties    *)
(* the object lacks (reading one gives undefined).  An object of the       *)
(* interface Snippet lacks none.  showSuggestions is never read.  A        *)
(* character outside printable ASCII, and the backquote, is written as its *)
(* UTF-16 code unit, "U+D83D".                                             *)

DEFAULT_SETTINGS ==
    [triggerKey |-> << "/" >>,
     snippets |-> <<
       [ref |-> 1, missing |-> {},
        trigger |-> << "m", "e", "e", "t", "i", "n", "g" >>,
        description |->
          << "M", "e", "e", "t", "i", "n", "g", " ", "n", "o", "t", "e",
             "s", " ", "t", "e", "m", "p", "l", "a", "t", "e" >>,
        template |->
          << "#", " ", "M", "e", "e", "t", "i", "n", "g", " ", "N", "o",
             "t", "e", "s", " ", "-", " ", "{", "{", "d", "a", "t", "e",
             "}", "}", "\n", "\n", "*", "*", "A", "t", "t", "e", "n", "d",
             "e", "e", "s", ":", "*", "*", " ", "\n", "-", " ", "\n", "\n",
             "*", "*", "A", "g", "e", "n", "d", "a", ":", "*", "*", "\n",
             "1", ".", " ", "\n", "\n", "*", "*", "D", "i", "s", "c", "u",
             "s", "s", "i", "o", "n", ":", "*", "*", "\n", "\n", "\n", "*",
             "*", "A", "c", "t", "i", "o", "n", " ", "I", "t", "e", "m",
             "s", ":", "*", "*", "\n", "-", " ", "[", " ", "]", " ", "\n",
             "\n", "*", "*", "N", "e", "x", "t", " ", "S", "t", "e", "p",
             "s", ":", "*", "*", "\n" >> ],
       [ref |-> 2, missing |-> {},
        trigger |-> << "t", "o", "d", "o" >>,
        description |->
          << "T", "a", "s", "k", " ", "l", "i", "s", "t", " ", "t", "e",
             "m", "p", "l", "a", "t", "e" >>,
        template |->
          << "#", "#", " ", "T", "a", "s", "k", "s", " ", "-", " ", "{",
             "{", "d", "a", "t", "e", "}", "}", "\n", "\n", "-", " ", "[",
             " ", "]", " ", "\n", "-", " ", "[", " ", "]", " ", "\n", "-",
             " ", "[", " ", "]", " ", "\n", "\n", "*", "*", "P", "r", "i",
             "o", "r", "i", "t", "y", ":", "*", "*", "\n", "U+D83D",
             "U+DD34", " ", "H", "i", "g", "h", ":", " ", "\n", "U+D83D",
             "U+DFE1", " ", "M", "e", "d", "i", "u", "m", ":", " ", "\n",
             "U+D83D", "U+DFE2", " ", "L", "o", "w", ":", " " >> ],
       [ref |-> 3, missing |-> {},
        trigger |-> << "i", "d", "e", "a" >>,
        description |->
          << "I", "d", "e", "a", " ", "c", "a", "p", "t", "u", "r", "e",
             " ", "t", "e", "m", "p", "l", "a", "t", "e" >>,
        template |->
          << "U+D83D", "U+DCA1", " ", "*", "*", "I", "d", "e", "a", ":",
             "*", "*", " ", "\n", "\n", "*", "*", "D", "a", "t", "e", ":",
             "*", "*", " ", "{", "{", "d", "a", "t", "e", "}", "}", "\n",
             "*", "*", "T", "i", "m", "e", ":", "*", "*", " ", "{", "{",
             "t", "i", "m", "e", "}", "}", "\n", "\n", "*", "*", "D", "e",
             "s", "c", "r", "i", "p", "t", "i", "o", "n", ":", "*", "*",
             "\n", "\n", "\n", "*", "*", "W", "h", "y", " ", "t", "h", "i",
             "s", " ", "m", "a", "t", "t", "e", "r", "s", ":", "*", "*",
             "\n", "\n", "\n", "*", "*", "N", "e", "x", "t", " ", "s", "t",
             "e", "p", "s", ":", "*", "*", "\n", "-", " " >> ],
       [ref |-> 4, missing |-> {},
        trigger |-> << "n", "o", "t", "e" >>,
        description |->
          << "Q", "u", "i", "c", "k", " ", "n", "o", "t", "e", " ", "t",
             "e", "m", "p", "l", "a", "t", "e" >>,
        template |->
          << "U+D83D", "U+DCDD", " ", "{", "{", "d", "a", "t", "e", "}",
             "}", " ", "{", "{", "t", "i", "m", "e", "}", "}", "\n", "\n" >> ],
       [ref |-> 5, missing |-> {},
        trigger |-> << "d", "a", "i", "l", "y" >>,
        description |->
          << "D", "a", "i", "l", "y", " ", "l", "o", "g", " ", "t", "e",
             "m", "p", "l", "a", "t", "e" >>,
        template |->
          << "#", " ", "D", "a", "i", "l", "y", " ", "L", "o", "g", " ",
             "-", " ", "{", "{", "d", "a", "t", "e", "}", "}", "\n", "\n",
             "#", "#", " ", "U+D83C", "U+DFAF", " ", "G", "o", "a", "l",
             "s", " ", "f", "o", "r", " ", "T", "o", "d", "a", "y", "\n",
             "-", " ", "[", " ", "]", " ", "\n", "-", " ", "[", " ", "]",
             " ", "\n", "-", " ", "[", " ", "]", " ", "\n", "\n", "#", "#",
             " ", "U+D83D", "U+DCDD", " ", "N", "o", "t", "e", "s", "\n",
             "\n", "\n", "#", "#", " ", "U+2705", " ", "C", "o", "m", "p",
             "l", "e", "t", "e", "d", "\n", "-", " ", "\n", "\n", "#", "#",
             " ", "U+D83D", "U+DCAD", " ", "T", "h", "o", "u", "g", "h",
             "t", "s", "\n" >> ],
       [ref |-> 6, missing |-> {},
        trigger |-> << "p", "r", "o", "j", "e", "c", "t" >>,
        description |->
          << "P", "r", "o", "j", "e", "c", "t", " ", "o", "u", "t", "l",
             "i", "n", "e", " ", "t", "e", "m", "p", "l", "a", "t", "e" >>,
        template |->
          << "#", " ", "P", "r", "o", "j", "e", "c", "t", ":", " ", "\n",
             "\n", "*", "*", "S", "t", "a", "t", "u", "s", ":", "*", "*",
             " ", "U+D83D", "U+DFE1", " ", "I", "n", " ", "P", "r", "o",
             "g", "r", "e", "s", "s", "\n", "*", "*", "S", "t", "a", "r",
             "t", "e", "d", ":", "*", "*", " ", "{", "{", "d", "a", "t",
             "e", "}", "}", "\n", "*", "*", "D", "e", "a", "d", "l", "i",
             "n", "e", ":", "*", "*", " ", "\n", "\n", "#", "#", " ", "O",
             "v", "e", "r", "v", "i", "e", "w", "\n", "\n", "\n", "#", "#",
             " ", "G", "o", "a", "l", "s", "\n", "-", " ", "\n", "-", " ",
             "\n", "-", " ", "\n", "\n", "#", "#", " ", "T", "a", "s", "k",
             "s", "\n", "-", " ", "[", " ", "]", " ", "\n", "-", " ", "[",
             " ", "]", " ", "\n", "\n", "#", "#", " ", "R", "e", "s", "o",
             "u", "r", "c", "e", "s", "\n", "-", " ", "\n", "\n", "#", "#",
             " ", "N", "o", "t", "e", "s", "\n" >> ],
       [ref |-> 7, missing |-> {},
        trigger |-> << "t", "a", "b", "l", "e" >>,
        description |->
          << "S", "i", "m", "p", "l", "e", " ", "t", "a", "b", "l", "e" >>,
        template |->
          << "|", " ", "C", "o", "l", "u", "m", "n", " ", "1", " ", "|",
             " ", "C", "o", "l", "u", "m", "n", " ", "2", " ", "|", " ",
             "C", "o", "l", "u", "m", "n", " ", "3", " ", "|", "\n", "|",
             "-", "-", "-", "-", "-", "-", "-", "-", "-", "-", "|", "-",
             "-", "-", "-", "-", "-", "-", "-", "-", "-", "|", "-", "-",
             "-", "-", "-", "-", "-", "-", "-", "-", "|", "\n", "|", " ",
             " ", " ", " ", " ", " ", " ", " ", " ", " ", "|", " ", " ",
             " ", " ", " ", " ", " ", " ", " ", " ", "|", " ", " ", " ",
             " ", " ", " ", " ", " ", " ", " ", "|", "\n", "|", " ", " ",
             " ", " ", " ", " ", " ", " ", " ", " ", "|", " ", " ", " ",
             " ", " ", " ", " ", " ", " ", " ", "|", " ", " ", " ", " ",
             " ", " ", " ", " ", " ", " ", "|" >> ],
       [ref |-> 8, missing |-> {},
        trigger |-> << "c", "o", "d", "e" >>,
        description |->
          << "C", "o", "d", "e", " ", "b", "l", "o", "c", "k" >>,
        template |->
          << "U+0060", "U+0060", "U+0060", "\n", "\n", "U+0060", "U+0060",
             "U+0060" >> ]
     >> ]

Undefined == <<"u", "n", "d", "e", "f", "i", "n", "e", "d">>

\* the string that `+` or a template literal makes of a property
FieldString(snippet, field) ==
    IF field \in snippet.missing THEN Undefined ELSE snippet[field]

\* loadData() resolved to null: the plugin has saved nothing yet
NoData == [keys |-> {}, triggerKey |-> << >>, snippets |-> << >>]

\* Object.assign({}, DEFAULT_SETTINGS, data): the own properties of data win
loadSettings(data) ==
    [triggerKey |-> IF "triggerKey" \in data.keys THEN data.triggerKey
                    ELSE DEFAULT_SETTINGS.triggerKey,
     snippets   |-> IF "snippets" \in data.keys THEN data.snippets
                    ELSE DEFAULT_SETTINGS.snippets]

\* what saveData(this.settings) writes
SettingsData(key, snips) ==
    [keys |-> {"triggerKey", "snippets"}, triggerKey |-> key, snippets |-> snips]

---------------------------------------------------------------------------
(* createSnippetExtension: the keydown handler *)

\* view.state.doc.lineAt(pos).from
LineFrom(d, pos) ==
    LET breaks == {j \in 1..pos : d[j] = "\n"}
    IN  IF breaks = {} THEN 0
        ELSE CHOOSE j \in breaks : \A k \in breaks : k <= j

\* line.text.slice(0, selection.head - line.from)
TextBeforeCursor(d, pos) == Slice(d, LineFrom(d, pos), pos)

\* plugin.settings.triggerKey + snippet.trigger
Candidate(key, snippet) == key \o FieldString(snippet, "trigger")

\* a mutant: the loop taking the last snippet that matches
RECURSIVE LastMatch(_, _, _, _)
LastMatch(text, key, snips, i) ==
    IF i > Len(snips) THEN 0
    ELSE LET later == LastMatch(text, key, snips, i + 1)
         IN  IF later # 0 THEN later
             ELSE IF EndsWith(text, Candidate(key, snips[i])) THEN i ELSE 0

RECURSIVE FirstMatch(_, _, _, _)
\* the for-of loop over the snippets from the i-th on: the index of the first
\* one whose candidate ends the text, 0 when the loop runs out
FirstMatch(text, key, snips, i) ==
    IF i > Len(snips) THEN 0
    ELSE IF EndsWith(text, Candidate(key, snips[i])) THEN i
         ELSE FirstMatch(text, key, snips, i + 1)

\* a mutant: every key completes
AnyKey(key) == TRUE

\* event.key === ' '
IsCompletionKey(key) == key = " "

\* a mutant: the span starts at the cursor
FromAtCursor(pos, trigger) == pos

\* const from = selection.head - trigger.length
SpanFrom(pos, trigger) == pos - Len(trigger)

\* a mutant: the text inserted at the cursor, the span left in place
InsertAtTo(d, c) == Slice(d, 0, c.to) \o c.insert \o Slice(d, c.to, Len(d))

\* the document after view.dispatch({ changes: { from, to, insert } })
ApplyChange(d, c) == Slice(d, 0, c.from) \o c.insert \o Slice(d, c.to, Len(d))

\* the cursor after the change: the editor maps it through the change, to the
\* end of the text that replaces a span ending at it; it stays before text
\* inserted at it
MapHead(pos, c) == IF c.from < c.to THEN c.from + Len(c.insert) ELSE pos

NoInstant == [day |-> 0, ms |-> 0]

\* no key event in progress
NoEvent ==
    [phase |-> "idle", key |-> "", prevented |-> FALSE, result |-> "none",
     changes |-> << >>, notices |-> << >>, matched |-> 0,
     span |-> [from |-> 0, to |-> 0], doc0 |-> << >>, head0 |-> 0, now |-> NoInstant]

\* the handler run on a key event in the current state: what it did to the
\* event (preventDefault), the changes dispatched, the notices shown and the
\* value returned; "threw" when it ended in a TypeError
keydown(key, now) ==
    LET textBeforeCursor == TextBeforeCursor(doc, head)
        m    == IF IsCompletionKey(key)
                THEN FirstMatch(textBeforeCursor, triggerKey, snippets, 1)
                ELSE 0
        seen == [NoEvent EXCEPT !.phase = "handled", !.key = key,
                                !.doc0 = doc, !.head0 = head]
    IN  IF m = 0 THEN [seen EXCEPT !.result = "false"]
        ELSE LET snippet == snippets[m]
                 trigger == Candidate(triggerKey, snippet)
                 from    == SpanFrom(head, trigger)
                 to      == head
             IN  IF "template" \in snippet.missing
                 \* expandSnippet(undefined): undefined.replace throws
                 THEN [seen EXCEPT !.prevented = TRUE, !.matched = m,
                                   !.span = [from |-> from, to |-> to],
                                   !.now = now, !.result = "threw"]
                 ELSE [seen EXCEPT
                         !.prevented = TRUE, !.matched = m, !.now = now,
                         !.span = [from |-> from, to |-> to],
                         !.changes = <<[from |-> from, to |-> to,
                                        insert |-> expandSnippet(snippet.template, now, env)]>>,
                         !.notices = <<FieldString(snippet, "trigger")>>,
                         !.result = "true"]

\* the key handler runs on a key event
Keydown(key, now) ==
    /\ ev.phase = "idle"
    /\ typed < MaxKeys
    /\ ev' = keydown(key, now)
    /\ doc' = IF ev'.changes = << >> THEN doc ELSE ApplyChange(doc, ev'.changes[1])
    /\ head' = IF ev'.changes = << >> THEN head ELSE MapHead(head, ev'.changes[1])
    /\ typed' = typed + 1
    /\ UNCHANGED <<snippets, triggerKey, store, env, template, expanded, rows,
                   newSnippet, pending, nextRef, lastOp, ops>>

\* the text a key types
KeyText(key) == IF key = "Enter" THEN <<"\n">> ELSE <<key>>

\* the editor's own handling of the key, unless the handler prevented it
HostDefault ==
    /\ ev.phase = "handled"
    /\ doc' = IF ev.prevented THEN doc
              ELSE Slice(doc, 0, head) \o KeyText(ev.key) \o Slice(doc, head, Len(doc))
    /\ head' = IF ev.prevented THEN head ELSE head + 1
    /\ ev' = NoEvent
    /\ UNCHANGED <<snippets, triggerKey, store, env, typed, template, expanded,
                   rows, newSnippet, pending, nextRef, lastOp, ops>>

---------------------------------------------------------------------------
(* The inputs of the editor specifications *)

Keys == {" ", "a", "Enter"}

\* the k-th variable of the settings tab's list, {{date}} to {{day}}, character
\* by character
Token(k) == <<"{", "{">> \o PlaceholderNames[k] \o <<"}", "}">>

TokenKinds == 1..Len(PlaceholderNames)

TriggerKeys == { <<"/">>, <<";", ";">> }

\* snippets a user can have configured in the settings tab
UserSnippets ==
    { [ref |-> 0, missing |-> {}, trigger |-> <<"a">>, description |-> <<"d">>,
       template |-> <<"X", " ">> \o Token(5)],
      [ref |-> 0, missing |-> {}, trigger |-> <<"a">>, description |-> <<"d">>,
       template |-> <<"B">>],
      [ref |-> 0, missing |-> {}, trigger |-> <<"/", "a">>, description |-> <<"d">>,
       template |-> << >>],
      [ref |-> 0, missing |-> {}, trigger |-> <<";", "a">>, description |-> <<"d">>,
       template |-> Token(1) \o Token(1)],
      [ref |-> 0, missing |-> {}, trigger |-> << >>, description |-> <<"d">>,
       template |-> <<"E">>] }

\* entries of a data.json the plugin did not write: a property may be absent
ForeignSnippets ==
    { [ref |-> 0, missing |-> {}, trigger |-> <<"a">>, description |-> <<"d">>,
       template |-> <<"B">>],
      [ref |-> 0, missing |-> {"template"}, trigger |-> <<"a">>,
       description |-> <<"d">>, template |-> << >>],
      [ref |-> 0, missing |-> {"trigger"}, trigger |-> << >>,
       description |-> <<"d">>, template |-> <<"T">>] }

\* the lists of at most n snippets of a pool, each entry an object of its own
SnippetLists(pool, n) ==
    { [i \in 1..Len(l) |-> [l[i] EXCEPT !.ref = i]] :
        l \in UNION { [1..k -> pool] : k \in 0..n } }

\* what the plugin itself can have saved
SavedStores ==
    {NoData} \cup
    { SettingsData(k, l) : k \in TriggerKeys, l \in SnippetLists(UserSnippets, MaxSnippets) }

\* what a data.json written by hand or by another program can hold
ForeignStores ==
    { [keys |-> {"triggerKey"}, triggerKey |-> << >>, snippets |-> << >>] } \cup
    { SettingsData(k, l) : k \in { << >>, <<"/">> },
                           l \in SnippetLists(ForeignSnippets, MaxSnippets) }

Envs == { [tz |-> 0, locale |-> "en-US"], [tz |-> 540, locale |-> "en-GB"] }

\* 2026-01-10T23:30:00.000Z and 2025-03-07T05:06:07.089Z
Instants == { [day |-> 20463, ms |-> 84600000], [day |-> 20154, ms |-> 18367089] }

\* documents with the cursor's offset
EditorDocs ==
    { [doc |-> << >>, head |-> 0],
      [doc |-> <<"/">>, head |-> 1],
      [doc |-> <<"x", ";", ";", "a">>, head |-> 4],
      [doc |-> <<";", ";", ";", "a">>, head |-> 4],
      [doc |-> <<"/", "/", "a", "b">>, head |-> 3],
      [doc |-> <<"/", "\n", "a">>, head |-> 3],
      [doc |-> <<"b", "\n", "/", "a", "\n", "b">>, head |-> 4],
      [doc |-> <<"h", "e", "l", "l", "o", " ", "/", "t", "o", "d", "o">>, head |-> 11],
      [doc |-> <<"/", "u", "n", "d", "e", "f", "i", "n", "e", "d">>, head |-> 10] }

NotExpanded == [done |-> FALSE, now |-> NoInstant, text |-> << >>]

NoRows == [shown |-> FALSE, items |-> << >>]

NoNewSnippet == [trigger |-> << >>, description |-> << >>, template |-> << >>]

NoOp == [kind |-> "none", row |-> 0, hit |-> 0]

\* the plugin loaded with the settings of a data.json, an editor open on a document
InitEditorWith(stores) ==
    /\ store \in stores
    /\ snippets = loadSettings(store).snippets
    /\ triggerKey = loadSettings(store).triggerKey
    /\ \E d \in EditorDocs : doc = d.doc /\ head = d.head
    /\ env \in Envs
    /\ ev = NoEvent
    /\ typed = 0
    /\ template = << >>
    /\ expanded = NotExpanded
    /\ rows = NoRows
    /\ newSnippet = NoNewSnippet
    /\ pending = << >>
    /\ nextRef = 0
    /\ lastOp = NoOp
    /\ ops = 0

InitEditor == InitEditorWith(SavedStores)

InitForeign == InitEditorWith(ForeignStores)

NextEditor ==
    \/ \E key \in Keys, now \in Instants : Keydown(key, now)
    \/ HostDefault

\* the key handler over the settings the plugin itself saved
SpecEditor == InitEditor /\ [][NextEditor]_vars

\* the key handler over the settings of a data.json written by something else
SpecForeign == InitForeign /\ [][NextEditor]_vars

---------------------------------------------------------------------------
(* The key handler: what the claims speak of, read off the handled event *)

\* a completion key-press has been handled and the editor has not yet resumed
SpaceHandled == ev.phase = "handled" /\ ev.key = " "

\* the current line from its start up to the cursor, when the key was pressed
PrecedingText ==
    LET starts == {j \in 0..ev.head0 :
                     \A k \in (j + 1)..ev.head0 : ev.doc0[k] # "\n"}
    IN  SubSeq(ev.doc0, (CHOOSE j \in starts : \A k \in starts : j <= k) + 1, ev.head0)

\* the snippets whose trigger key + trigger ends the preceding text
Suffixing ==
    {i \in 1..Len(snippets) :
        EndsWith(PrecedingText, triggerKey \o snippets[i].trigger)}

\* the length of trigger key + trigger of the i-th snippet
CandidateLength(i) == Len(triggerKey) + Len(snippets[i].trigger)

\* the length of the span the handler computed for its match, -1 without match
MatchLength == IF ev.matched # 0 THEN ev.span.to - ev.span.from ELSE -1

\* C1 (as stated): whenever the preceding text ends with the trigger key + the
\* trigger of a snippet S of the list, the completion key-press matches S and
\* the match length is len(K) + len(S.trigger).
C1_EverySuffixingSnippetMatches ==
    SpaceHandled =>
        \A i \in Suffixing : ev.matched = i /\ MatchLength = CandidateLength(i)

\* C1 (amended): whenever the preceding text ends with the trigger key + the
\* trigger of a snippet S and of no snippet before S in the list, the
\* completion key-press matches S and the match length is
\* len(K) + len(S.trigger).
C1_FirstSuffixingSnippetMatches ==
    SpaceHandled =>
        \A i \in Suffixing :
            (\A j \in Suffixing : i <= j) =>
                ev.matched = i /\ MatchLength = CandidateLength(i)

\* the specification's example: K = ";;", trigger "a", text "x;;a", length 3
C1_Witness ==
    /\ SpaceHandled
    /\ triggerKey = <<";", ";">>
    /\ PrecedingText = <<"x", ";", ";", "a">>
    /\ ev.matched # 0
    /\ snippets[ev.matched].trigger = <<"a">>
    /\ MatchLength = 3

\* C2: when the candidates of several snippets end the preceding text, the
\* snippet expanded is the one of smallest index in the list: its template is
\* what is inserted and its trigger what is notified, never a later or a
\* longer match.
C2_FirstRegisteredWins ==
    (SpaceHandled /\ Suffixing # {}) =>
        LET first == CHOOSE i \in Suffixing : \A j \in Suffixing : i <= j
        IN  /\ ev.matched = first
            /\ Len(ev.changes) = 1
            /\ ev.changes[1].insert = expandSnippet(snippets[first].template, ev.now, env)
            /\ ev.notices = <<snippets[first].trigger>>

\* two snippets match, the later one with the longer candidate and another
\* template; the first was expanded
C2_Witness ==
    /\ SpaceHandled
    /\ ev.matched = 1
    /\ ev.result = "true"
    /\ \E j \in Suffixing :
          /\ j > 1
          /\ CandidateLength(j) > CandidateLength(1)
          /\ snippets[j].template # snippets[1].template

\* C3: a key-press that is not the completion key, or whose preceding text
\* ends with the candidate of no snippet, is a no-op: the document and the
\* cursor are unchanged, the default is not prevented, nothing is notified and
\* the handler returns false.
C3_NoMatchIsNoOp ==
    (ev.phase = "handled" /\ (ev.key # " " \/ Suffixing = {})) =>
        /\ doc = ev.doc0
        /\ head = ev.head0
        /\ ~ev.prevented
        /\ ev.changes = << >>
        /\ ev.notices = << >>
        /\ ev.result = "false"

\* a space after text that holds a candidate, but not at its end
C3_Witness ==
    /\ SpaceHandled
    /\ snippets # << >>
    /\ Suffixing = {}
    /\ \E i \in 1..Len(snippets) :
          Contains(ev.doc0, triggerKey \o snippets[i].trigger)
    /\ ev.result = "false"
    /\ doc = ev.doc0

\* C4: on a matching completion key-press the default is prevented and the
\* document gets exactly one edit: the span [cursor - candidate length, cursor)
\* is replaced by the expanded template, the text before and after it stays,
\* the span lies in the current line and ends at the cursor, and one snippet
\* only is expanded and notified.
C4_OneSpliceAtTheCursor ==
    (SpaceHandled /\ Suffixing # {}) =>
        /\ ev.prevented
        /\ ev.result = "true"
        /\ Len(ev.changes) = 1
        /\ Len(ev.notices) = 1
        /\ ev.matched \in Suffixing
        /\ LET c == ev.changes[1]
           IN  /\ c.to = ev.head0
               /\ c.from = ev.head0 - CandidateLength(ev.matched)
               /\ c.from >= 0
               /\ \A k \in (c.from + 1)..c.to : ev.doc0[k] # "\n"
               /\ c.insert = expandSnippet(snippets[ev.matched].template, ev.now, env)
               /\ doc = SubSeq(ev.doc0, 1, c.from) \o c.insert
                        \o SubSeq(ev.doc0, ev.head0 + 1, Len(ev.doc0))

\* a trigger in the middle of a document of several lines was expanded, text
\* before and after it
C4_Witness ==
    /\ SpaceHandled
    /\ ev.matched # 0
    /\ Len(ev.changes) = 1
    /\ ev.changes[1].from > 0
    /\ ev.changes[1].to < Len(ev.doc0)
    /\ ev.changes[1].insert # << >>
    /\ \E k \in 1..ev.changes[1].from : ev.doc0[k] = "\n"
    /\ doc # ev.doc0

\* C5: with an empty trigger key, a completion key-press matches as if the key
\* were the default "/": a snippet with trigger t matches only after "/" + t,
\* and the span replaced is "/" + t.
C5_EmptyKeyMatchesAsDefault ==
    (SpaceHandled /\ triggerKey = << >> /\ ev.matched # 0) =>
        LET t == FieldString(snippets[ev.matched], "trigger")
        IN  /\ EndsWith(PrecedingText, <<"/">> \o t)
            /\ MatchLength = 1 + Len(t)

\* the entries that have a trigger and a template
WellFormed == {i \in 1..Len(snippets) : snippets[i].missing = {}}

\* C6: an entry without trigger or without template is skipped: it never
\* matches, the handler never throws on it, the default is prevented only for
\* a well-formed entry that matches, and the first well-formed entry whose
\* candidate ends the preceding text matches as it would without the others.
C6_MalformedEntriesAreSkipped ==
    (SpaceHandled /\ triggerKey # << >>) =>
        LET valid == Suffixing \cap WellFormed
        IN  /\ ev.result # "threw"
            /\ ev.matched = IF valid = {} THEN 0
                            ELSE CHOOSE i \in valid : \A j \in valid : i <= j
            /\ ev.prevented <=> valid # {}

---------------------------------------------------------------------------
(* The expander on its own *)

\* pieces of template text: the placeholders, braces, a misspelt and an
\* unbraced placeholder
TemplatePieces ==
    { Token(k) : k \in TokenKinds } \cup
    { <<"{", "{">>, <<"}", "}">>, <<"{", "{", "d", "a", "t", "}", "}">>,
      <<"d", "a", "t", "e">> }

RECURSIVE Flatten(_)
Flatten(pieces) ==
    IF pieces = << >> THEN << >> ELSE Head(pieces) \o Flatten(Tail(pieces))

\* the templates of at most MaxPieces pieces
Templates ==
    { Flatten(l) : l \in UNION { [1..n -> TemplatePieces] : n \in 0..MaxPieces } }

InitExpand ==
    /\ template \in Templates
    /\ env \in Envs
    /\ expanded = NotExpanded
    /\ store = NoData
    /\ snippets = << >>
    /\ triggerKey = << >>
    /\ doc = << >>
    /\ head = 0
    /\ ev = NoEvent
    /\ typed = 0
    /\ rows = NoRows
    /\ newSnippet = NoNewSnippet
    /\ pending = << >>
    /\ nextRef = 0
    /\ lastOp = NoOp
    /\ ops = 0

\* plugin.expandSnippet(template), called at the instant now
Expand(now) ==
    /\ ~expanded.done
    /\ expanded' = [done |-> TRUE, now |-> now,
                    text |-> expandSnippet(template, now, env)]
    /\ UNCHANGED <<snippets, triggerKey, store, doc, head, env, ev, typed,
                   template, rows, newSnippet, pending, nextRef, lastOp, ops>>

NextExpand == \E now \in Instants : Expand(now)

SpecExpand == InitExpand /\ [][NextExpand]_vars

\* the positions at which s holds pat
Occurrences(s, pat) == {i \in 1..Len(s) : OccursAt(s, pat, i)}

HasToken(s) == \E k \in TokenKinds : Occurrences(s, Token(k)) # {}

RECURSIVE Substituted(_, _)
\* s from position i on, read once from left to right: each recognized token
\* gives its value at the instant the expander read, any other character itself
Substituted(s, i) ==
    LET at   == {j \in i..Len(s) : \E k \in TokenKinds : OccursAt(s, Token(k), j)}
    IN  IF at = {} THEN SubSeq(s, i, Len(s))
        ELSE LET j == CHOOSE x \in at : \A y \in at : x <= y
                 k == CHOOSE x \in TokenKinds : OccursAt(s, Token(x), j)
             IN  SubSeq(s, i, j - 1) \o PlaceholderValue(k, expanded.now, env)
                 \o Substituted(s, j + Len(Token(k)))

\* C7: the expansion replaces every occurrence of each recognized placeholder
\* by its value at one instant: the output is the template with each token,
\* wherever it occurs, replaced by that value, and holds no recognized token.
C7_EveryOccurrenceReplaced ==
    expanded.done =>
        /\ expanded.text = Substituted(template, 1)
        /\ ~HasToken(expanded.text)

\* a placeholder occurring twice, and another one, were expanded
C7_Witness ==
    /\ expanded.done
    /\ \E k \in TokenKinds : Cardinality(Occurrences(template, Token(k))) >= 2
    /\ Cardinality({k \in TokenKinds : Occurrences(template, Token(k)) # {}}) >= 2
    /\ ~HasToken(expanded.text)

\* a token wrapped in a further pair of braces
Wrapped(s) == <<"{", "{">> \o s \o <<"}", "}">>

Misspelt == <<"{", "{", "d", "a", "t", "}", "}">>

\* C8 (as stated): a template without placeholder token is returned unchanged,
\* and misspelt tokens and tokens wrapped in extra braces are left verbatim.
C8_NestedTokensLeftVerbatim ==
    expanded.done =>
        /\ ~HasToken(template) => expanded.text = template
        /\ Cardinality(Occurrences(expanded.text, Misspelt))
              = Cardinality(Occurrences(template, Misspelt))
        /\ \A k \in TokenKinds :
              Occurrences(template, Wrapped(Token(k))) # {} =>
                  Occurrences(expanded.text, Wrapped(Token(k))) # {}

\* C8 (amended): a template without placeholder token is returned unchanged
\* and misspelt tokens are left verbatim; of a token wrapped in extra braces
\* the braces around it are left and the token itself is replaced.
C8_OnlyTokensChange ==
    expanded.done =>
        /\ ~HasToken(template) => expanded.text = template
        /\ Cardinality(Occurrences(expanded.text, Misspelt))
              = Cardinality(Occurrences(template, Misspelt))
        /\ \A k \in TokenKinds :
              template = Wrapped(Token(k)) =>
                  expanded.text = Wrapped(PlaceholderValue(k, expanded.now, env))

\* a template of braces, a misspelt token and the name of a placeholder, none
\* of them a token, came back as it was
C8_Witness ==
    /\ expanded.done
    /\ ~HasToken(template)
    /\ Occurrences(template, Misspelt) # {}
    /\ Occurrences(template, PlaceholderNames[1]) # {}
    /\ expanded.text = template

---------------------------------------------------------------------------
(* SmartSnippetsSettingTab *)

\* display(): the tab is emptied and rendered again.  Each row keeps, in the
\* closures of its handlers, the index of its snippet in the list as it was;
\* items[i] is the snippet row i shows.
Render(snips) ==
    [shown |-> TRUE, items |-> [i \in 1..Len(snips) |-> snips[i].ref]]

\* saveSettings() called with the settings (key, snips): saveData has the
\* data to write, and the handler waits for it; after tells what the handler
\* does when the write is done
Saving(key, snips, after) ==
    Append(pending, [after |-> after, data |-> SettingsData(key, snips)])

\* Array.prototype.splice(index, 1), index counted from 1
Splice(snips, i) ==
    IF i > Len(snips) THEN snips
    ELSE SubSeq(snips, 1, i - 1) \o SubSeq(snips, i + 1, Len(snips))

CustomSnippet ==
    <<"C", "u", "s", "t", "o", "m", " ", "s", "n", "i", "p", "p", "e", "t">>

\* the user opens the settings tab
OpenTab ==
    /\ ~rows.shown
    /\ rows' = Render(snippets)
    /\ newSnippet' = NoNewSnippet
    /\ UNCHANGED <<snippets, triggerKey, store, doc, head, env, ev, typed,
                   template, expanded, pending, nextRef, lastOp, ops>>

\* onChange of the trigger character
TriggerKeyChange(value) ==
    /\ rows.shown
    /\ ops < MaxOps
    /\ triggerKey' = IF value = << >> THEN <<"/">> ELSE value
    /\ pending' = Saving(triggerKey', snippets, "nothing")
    /\ lastOp' = [kind |-> "key", row |-> 0, hit |-> 0]
    /\ ops' = ops + 1
    /\ UNCHANGED <<snippets, store, doc, head, env, ev, typed, template,
                   expanded, rows, newSnippet, nextRef>>

\* onClick of the Delete button of row i, up to its await
DeleteClick(i) ==
    /\ rows.shown
    /\ ops < MaxOps
    /\ i \in 1..Len(rows.items)
    /\ snippets' = Splice(snippets, i)
    /\ pending' = Saving(triggerKey, snippets', "display")
    /\ lastOp' = [kind |-> "delete", row |-> rows.items[i],
                  hit |-> IF i > Len(snippets) THEN 0 ELSE snippets[i].ref]
    /\ ops' = ops + 1
    /\ UNCHANGED <<triggerKey, store, doc, head, env, ev, typed, template,
                   expanded, rows, newSnippet, nextRef>>

\* onChange of a text field of row i, up to its await: snippets[index].field
\* = value, a TypeError when the list has no such entry any more
EditField(i, field, value) ==
    /\ rows.shown
    /\ ops < MaxOps
    /\ i \in 1..Len(rows.items)
    /\ IF i > Len(snippets)
       THEN /\ lastOp' = [kind |-> "edit", row |-> rows.items[i], hit |-> 0]
            /\ UNCHANGED <<snippets, pending>>
       ELSE /\ snippets' = [snippets EXCEPT ![i][field] = value]
            /\ pending' = Saving(triggerKey, snippets', "nothing")
            /\ lastOp' = [kind |-> "edit", row |-> rows.items[i],
                          hit |-> snippets[i].ref]
    /\ ops' = ops + 1
    /\ UNCHANGED <<triggerKey, store, doc, head, env, ev, typed, template,
                   expanded, rows, newSnippet, nextRef>>

EditTrigger(i, value) == EditField(i, "trigger", value)

EditDescription(i, value) == EditField(i, "description", value)

EditTemplate(i, value) == EditField(i, "template", value)

\* onChange of a field of the Add New Snippet form
NewFieldChange(field, value) ==
    /\ rows.shown
    /\ newSnippet[field] # value
    /\ newSnippet' = [newSnippet EXCEPT ![field] = value]
    /\ UNCHANGED <<snippets, triggerKey, store, doc, head, env, ev, typed,
                   template, expanded, rows, pending, nextRef, lastOp, ops>>

\* onClick of Add Snippet, up to its await
AddClick ==
    /\ rows.shown
    /\ ops < MaxOps
    /\ IF newSnippet.trigger # << >> /\ newSnippet.template # << >>
       THEN /\ snippets' = Append(snippets,
                  [ref |-> nextRef, missing |-> {},
                   trigger |-> newSnippet.trigger,
                   description |-> IF newSnippet.description = << >>
                                   THEN CustomSnippet
                                   ELSE newSnippet.description,
                   template |-> newSnippet.template])
            /\ nextRef' = nextRef + 1
            /\ pending' = Saving(triggerKey, snippets', "display")
            /\ lastOp' = [kind |-> "add", row |-> 0, hit |-> nextRef]
       ELSE /\ lastOp' = [kind |-> "add-refused", row |-> 0, hit |-> 0]
            /\ UNCHANGED <<snippets, nextRef, pending>>
    /\ ops' = ops + 1
    /\ UNCHANGED <<triggerKey, store, doc, head, env, ev, typed, template,
                   expanded, rows, newSnippet>>

\* the write of the k-th waiting handler is done and the handler resumes
SaveDone(k) ==
    /\ k \in 1..Len(pending)
    /\ store' = pending[k].data
    /\ pending' = SubSeq(pending, 1, k - 1) \o SubSeq(pending, k + 1, Len(pending))
    /\ IF pending[k].after = "display"
       THEN rows' = Render(snippets) /\ newSnippet' = NoNewSnippet
       ELSE UNCHANGED <<rows, newSnippet>>
    /\ UNCHANGED <<snippets, triggerKey, doc, head, env, ev, typed, template,
                   expanded, nextRef, lastOp, ops>>

\* what the user types into the fields
KeyInputs == { << >>, <<";", ";">> }

TriggerInputs == { << >> }

TextInputs == { <<"T">> }

\* a data.json of an earlier session
EarlierStores ==
    { NoData,
      SettingsData(<<";", ";">>,
         << [ref |-> 1, missing |-> {}, trigger |-> <<"a">>,
             description |-> <<"d">>, template |-> <<"A">>],
            [ref |-> 2, missing |-> {}, trigger |-> <<"b">>,
             description |-> <<"d">>, template |-> <<"B">>],
            [ref |-> 3, missing |-> {}, trigger |-> <<"c">>,
             description |-> <<"d">>, template |-> <<"C">>] >>) }

\* onload: the settings loaded, the tab added and not yet opened
InitSettings ==
    /\ store \in EarlierStores
    /\ snippets = loadSettings(store).snippets
    /\ triggerKey = loadSettings(store).triggerKey
    /\ nextRef = Len(snippets) + 1
    /\ rows = NoRows
    /\ newSnippet = NoNewSnippet
    /\ pending = << >>
    /\ lastOp = NoOp
    /\ ops = 0
    /\ doc = << >>
    /\ head = 0
    /\ env \in {e \in Envs : e.tz = 0}
    /\ ev = NoEvent
    /\ typed = 0
    /\ template = << >>
    /\ expanded = NotExpanded

NextSettings ==
    \/ OpenTab
    \/ \E value \in KeyInputs : TriggerKeyChange(value)
    \/ \E i \in 1..Len(rows.items) : DeleteClick(i)
    \/ \E i \in 1..Len(rows.items), value \in TriggerInputs : EditTrigger(i, value)
    \/ \E i \in 1..Len(rows.items), value \in TextInputs : EditDescription(i, value)
    \/ \E i \in 1..Len(rows.items), value \in TextInputs : EditTemplate(i, value)
    \/ \E field \in {"trigger", "description", "template"}, value \in TextInputs :
          NewFieldChange(field, value)
    \/ AddClick
    \/ \E k \in 1..Len(pending) : SaveDone(k)

SpecSettings == InitSettings /\ [][NextSettings]_vars

\* C9: after any sequence of settings operations the trigger key is not
\* empty and every snippet has a non-empty trigger and a template.
C9_KeyAndTriggersNeverEmpty ==
    /\ triggerKey # << >>
    /\ \A i \in 1..Len(snippets) :
          /\ snippets[i].trigger # << >>
          /\ snippets[i].missing = {}

\* C10: a Delete click or an edit of a row hits the snippet the row shows.
C10_HandlerHitsItsRow ==
    lastOp.kind \in {"delete", "edit"} => lastOp.hit = lastOp.row

====
